---- MODULE Spec2Model ----
(***************************************************************************)
(* Metadata cache refresh of src/cache/cache_base.py: the full build       *)
(* (create_metadata_cache), the incremental dirty-set refresh              *)
(* (incremental_update_metadata_cache, update_dirty_cache_items) and the   *)
(* checkpoint store (background_worker_state), for one entity adapter.     *)
(*                                                                         *)
(* The adapter is the category adapter of blog_category_cache.py, whose    *)
(* cache row is (last_updated, id, name, slug).  Every adapter of          *)
(* src/cache has the same first three columns (last_updated, id,           *)
(* name-or-title).  The SQL text is abstracted to the relation it          *)
(* computes; the slug column is a function of name and is left out of the  *)
(* row here.                                                               *)
(*                                                                         *)
(* Time is a logical clock: every datetime.now() and every source change   *)
(* reads a value not smaller than the previous reading, and the first      *)
(* reading of a command (a new process, new connections) is later than     *)
(* every reading before it.  Commands run one after another.               *)
(***************************************************************************)
EXTENDS Integers, Sequences, FiniteSets, TLC

\* ---------------------------------------------------------------- bounds
MaxId == 2
MaxTime == 3
MaxBatchSize == 2
MaxLen == 3

Ids == 1..MaxId
Times == 0..MaxTime
\* names (titles) a source row can carry: one that is no decimal number and
\* one that reads as the decimal number 1
Names == {"a", "1"}

\* an id with no row in the source
NoRow == [name |-> "-", changed |-> 0 - 1]
\* None where a datetime is expected
NoTime == 0 - 1

CACHE_TIMESTAMP_KEY == "blog_category_cache_last_update_timestamp"

\* table classes a caller can pass to create_metadata_cache as required_tables
RequiredTables == {"blog_cache"}

\* the eight adapters (subclasses of EntityMetadataCache)
Entities == {"blog", "blog_category", "company", "company_category",
             "glossary", "glossary_category", "post", "post_category"}

\* the table name each adapter passes to BulkInsertTable.__init__
TableName(e) ==
  CASE e = "blog" -> "cache.blog_cache"
    [] e = "blog_category" -> "cache.blog_category_cache"
    [] e = "company" -> "cache.company_cache"
    [] e = "company_category" -> "cache.company_category_cache"
    [] e = "glossary" -> "cache.glossary_cache"
    [] e = "glossary_category" -> "cache.glossary_category_cache"
    [] e = "post" -> "cache.post_cache"
    [] e = "post_category" -> "cache.post_category_cache"

\* <E>_CACHE_TIMESTAMP_KEY of each adapter module
TimestampKey(e) ==
  CASE e = "blog" -> "blog_cache_last_update_timestamp"
    [] e = "blog_category" -> "blog_category_cache_last_update_timestamp"
    [] e = "company" -> "company_cache_last_update_timestamp"
    [] e = "company_category" -> "company_category_cache_last_update_timestamp"
    [] e = "glossary" -> "glossary_cache_last_update_timestamp"
    [] e = "glossary_category" -> "glossary_category_cache_last_update_timestamp"
    [] e = "post" -> "post_cache_last_update_timestamp"
    [] e = "post_category" -> "post_category_cache_last_update_timestamp"

TableNames == {TableName(e) : e \in Entities}
TimestampKeys == {TimestampKey(e) : e \in Entities}

VARIABLES
  clock,          \* last reading of the wall clock
  src,            \* source database: id -> [name, changed] or NoRow
  tableExists,    \* the cache table exists in the destination
  cache,          \* committed rows of the cache table: <<last_updated, id, name>>
  txn,            \* rows as seen inside the open destination transaction
  bwsExists,      \* the background_worker_state table exists
  bws,            \* committed rows of background_worker_state: [key, value]
  pc,             \* position of the running command
  mode,           \* "none", "full" or "inc": the command that ran last
  timestamp,      \* incremental: checkpoint read at the start (NoTime: None)
  new_timestamp,  \* datetime.now() captured by the command
  ids,            \* incremental: result of query_last_updated_items
  last_updated,   \* EntityMetadataCache.last_updated
  cursor,         \* rows of the source query not yet fetched
  required_missing, \* full build: required tables found not to exist
  batch_size,     \* BulkInsertTable.batch_size
  err,            \* exception that ended the command ("none" if none)
  \* history of the current command, read by the properties only
  fetched,        \* rows the source query returned, in result order
  stmts,          \* statements issued on the destination connection
  srcLog,         \* statements issued on the source connection
  preCache,       \* committed cache rows when the command started
  preBws,         \* committed checkpoint rows when the command started
  \* one function of one adapter called on its own
  entity,         \* the entity whose adapter is called ("none": no call)
  call,           \* the call: function, argument and outcome
  \* the commands of manage.py and the entry points of the adapters
  command,        \* the command that ran last
  queue,          \* the entry points the command has still to call
  ran,            \* entities whose full build the command completed
  tables,         \* cache table name -> last_updated of its rows (NoTime: none)
  checkpoints,    \* key of background_worker_state -> stored value (NoTime: none)
  procs,          \* overlapping runs of one entity: process -> its position
  sourceStable    \* "q1": the source is as the full query of the last full
                  \* build saw it; "prev": so, and that build completed and
                  \* another full build has started; "q2": so, and the second
                  \* build has run its query too; "none" otherwise

vars == <<clock, src, tableExists, cache, txn, bwsExists, bws, pc, mode,
          timestamp, new_timestamp, ids, last_updated, cursor,
          required_missing, batch_size, err, fetched, stmts, srcLog, preCache,
          preBws, sourceStable, entity, call, command, queue, ran, tables,
          checkpoints, procs>>

adapterVars == <<entity, call>>
entityVars == <<command, queue, ran, tables, checkpoints, procs>>
auxVars == <<adapterVars, entityVars>>
cacheVars == <<clock, src, tableExists, cache, txn, bwsExists, bws, pc, mode,
               timestamp, new_timestamp, ids, last_updated, cursor,
               required_missing, batch_size, err, fetched, stmts, srcLog,
               preCache, preBws, sourceStable>>

dbVars == <<tableExists, cache, txn, bwsExists, bws>>
runVars == <<timestamp, new_timestamp, ids, last_updated, cursor,
             required_missing>>
histVars == <<fetched, stmts, srcLog, preCache, preBws, sourceStable>>

\* ------------------------------------------------------------ helpers
\* python's 0-based tuple index
Col(row, i) == row[i + 1]

Range(s) == {s[i] : i \in 1..Len(s)}

Min(a, b) == IF a <= b THEN a ELSE b

\* all orderings of a finite set as sequences
Perms(S) ==
  {s \in [1..Cardinality(S) -> S] : \A i, j \in 1..Cardinality(S) : i # j => s[i] # s[j]}

\* datetime.now(): the clock does not go back
Now == {t \in Times : t >= clock /\ t <= clock + 1}

\* the first datetime.now() of a command: the process started after every
\* earlier reading was taken
NowInNewCommand == {t \in Times : t = clock + 1}

\* datetime.isoformat / datetime.fromisoformat
Isoformat(ts) == <<"iso", ts>>
FromIsoformat(text) == text[2]

\* PostgreSQL's coercion of a text literal compared with an integer column:
\* a text that is no decimal integer raises invalid_text_representation
IsIntText(text) == text \in {"1"}
TextToInt(text) == CASE text = "1" -> 1

RowsWithId(tbl, i) == {r \in tbl : Col(r, 1) = i}

\* ------------------------------------------------ destination database
\* id SERIAL PRIMARY KEY: the insert raises unique_violation when a new row
\* repeats an id of the table or of the same statement
PrimaryKeyNotEnforced(tbl, batch) == FALSE

PrimaryKeyViolated(tbl, batch) ==
  \/ \E k \in 1..Len(batch) : RowsWithId(tbl, Col(batch[k], 1)) # {}
  \/ \E k, l \in 1..Len(batch) : k # l /\ Col(batch[k], 1) = Col(batch[l], 1)

\* insert_rows(curs, table_name, rows)
InsertRows(tbl, batch) == tbl \cup Range(batch)

\* batch_recording_mbids = [row[2] for row in rows]
BatchDeleteArgs(batch) == [k \in 1..Len(batch) |-> Col(batch[k], 2)]

\* DELETE FROM <table> WHERE id IN %s
DeleteRaises(args) == \E k \in 1..Len(args) : ~IsIntText(args[k])
DeleteTargets(args) == {TextToInt(args[k]) : k \in 1..Len(args)}
DeleteRows(tbl, args) == {r \in tbl : Col(r, 1) \notin DeleteTargets(args)}

\* StoredTimestamp taking a missing row for the start of time
StoredTimestampDefaultsToEpoch(tbl, key) ==
  IF ~bwsExists THEN NoTime
  ELSE IF {r \in tbl : r.key = key} = {} THEN 0
  ELSE FromIsoformat((CHOOSE r \in tbl : r.key = key).value)

\* SELECT value FROM background_worker_state WHERE key = <key> on the rows
\* tbl: None when the table is undefined or holds no row for the key
StoredTimestamp(tbl, key) ==
  IF ~bwsExists THEN NoTime
  ELSE IF {r \in tbl : r.key = key} = {} THEN NoTime
  ELSE FromIsoformat((CHOOSE r \in tbl : r.key = key).value)

\* select_metadata_cache_timestamp(conn, key)
SelectTimestamp(key) == StoredTimestamp(bws, key)

\* a plain INSERT, with no ON CONFLICT clause and no unique key
InsertWithoutConflictClause(tbl, key, ts) ==
  tbl \cup {[key |-> key, value |-> Isoformat(ts)]}

\* INSERT ... ON CONFLICT (key) DO UPDATE SET value = EXCLUDED.value
Upsert(tbl, key, ts) ==
  {r \in tbl : r.key # key} \cup {[key |-> key, value |-> Isoformat(ts)]}

\* ------------------------------------------------------ source database
\* FullQuery restricted to the rows changed since the stored checkpoint
FullQuerySinceCheckpoint ==
  {<<i, src[i].name>> :
     i \in {j \in Ids : src[j] # NoRow
                         /\ src[j].changed >= SelectTimestamp(CACHE_TIMESTAMP_KEY)}}

\* get_metadata_cache_query(with_values=False): one row (id, name) per entity
FullQuery == {<<i, src[i].name>> : i \in {j \in Ids : src[j] # NoRow}}

\* get_metadata_cache_query(with_values=True) joined with the values list
SubsetQuery(subset) == {r \in FullQuery : r[1] \in subset}

\* execute_values(mb_curs, query, values, page_size=len(values)): with no
\* values the page size is 0 and the first (empty) page has no page[0]
ExecuteValuesRaises(subset) == subset = {}

\* the WHERE clause of query_last_updated_items
LastUpdatedItems(ts) == {i \in Ids : src[i] # NoRow /\ src[i].changed >= ts}

\* create_json_data(row): (id, name, slug), the slug left out
CreateJsonData(row) == <<row[1], row[2]>>

\* CacheRow reading the clock for every row
CacheRowStampedAtFetch(lu, row) == <<clock>> \o CreateJsonData(row)

\* rows.append((self.last_updated, *data))
CacheRow(lu, row) == <<lu>> \o CreateJsonData(row)

\* config_postgres_join_limit leaving the collapse limits at their defaults
ConfigWithoutCollapseLimits(c) ==
  <<"set", c, <<"SET geqo = off", "SET geqo_threshold = 20">>>>

\* config_postgres_join_limit(curs): the statements it executes on cursor c
ConfigPostgresJoinLimit(c) ==
  <<"set", c, <<"SET geqo = off", "SET geqo_threshold = 20",
                "SET from_collapse_limit = 15", "SET join_collapse_limit = 15">>>>

\* a query executed against the source on cursor c: the full query, the
\* subset query, or the dirty-id query (dirty_error: it raised
\* OperationalError)
SourceQuery(q, c) == <<q, c>>

\* a statement on the destination connection and its parameters
Stmt(op, arg) == <<op, arg>>

\* ------------------------------------------------------------ positions
Terminal == {"idle", "done", "failed", "returned_no_table",
             "returned_no_checkpoint", "returned_no_ids",
             "returned_required_missing"}
Running == {"full_run", "full_loop", "full_checkpoint", "inc_query",
            "inc_update", "inc_loop", "inc_return"}

TypeOK ==
  /\ clock \in Times
  /\ pc \in Terminal \cup Running
  /\ mode \in {"none", "full", "inc"}
  /\ batch_size \in 1..MaxBatchSize
  /\ tableExists \in BOOLEAN
  /\ bwsExists \in BOOLEAN
  /\ ids \subseteq Ids
  /\ required_missing \subseteq RequiredTables
  /\ timestamp \in Times \cup {NoTime}
  /\ new_timestamp \in Times \cup {NoTime}
  /\ last_updated \in Times \cup {NoTime}
  /\ sourceStable \in {"none", "q1", "prev", "q2"}

\* no adapter function is being called on its own
NoCall == [fn |-> "none", arg |-> <<>>, done |-> TRUE, outcome |-> <<>>]

InitCache ==
  /\ clock = 0
  /\ src = [i \in Ids |-> NoRow]
  /\ tableExists = FALSE
  /\ cache = {}
  /\ txn = {}
  /\ bwsExists \in BOOLEAN
  /\ bws = {}
  /\ pc = "idle"
  /\ mode = "none"
  /\ timestamp = NoTime
  /\ new_timestamp = NoTime
  /\ ids = {}
  /\ last_updated = NoTime
  /\ cursor = <<>>
  /\ required_missing = {}
  /\ batch_size \in 1..MaxBatchSize
  /\ err = "none"
  /\ fetched = <<>>
  /\ stmts = <<>>
  /\ srcLog = <<>>
  /\ preCache = {}
  /\ preBws = {}
  /\ sourceStable = "none"

\* the processes that can run commands of one entity at the same time
Procs == {"A", "B"}

\* a process running no command
NoProc == [pc |-> "idle", kind |-> "none", new_timestamp |-> NoTime]

\* no command has run: no cache table holds a row, no checkpoint is stored
InitEntities ==
  /\ command = <<"none">>
  /\ queue = <<>>
  /\ ran = {}
  /\ tables = [t \in TableNames |-> NoTime]
  /\ checkpoints = [k \in TimestampKeys |-> NoTime]
  /\ procs = [p \in Procs |-> NoProc]

Init ==
  /\ InitCache
  /\ entity = "none"
  /\ call = NoCall
  /\ InitEntities

\* --------------------------------------------------- the source changes
\* another writer inserts or changes entity i in the source
SourceWrite(i, n) ==
  /\ UNCHANGED auxVars
  /\ \E t \in Now :
       /\ clock' = t
       /\ src' = [src EXCEPT ![i] = [name |-> n, changed |-> t]]
  /\ sourceStable' = "none"
  /\ UNCHANGED <<dbVars, pc, mode, runVars, batch_size, err, fetched, stmts,
                 srcLog, preCache, preBws>>

\* another writer deletes entity i from the source
SourceDelete(i) ==
  /\ UNCHANGED auxVars
  /\ src[i] # NoRow
  /\ src' = [src EXCEPT ![i] = NoRow]
  /\ sourceStable' = "none"
  /\ UNCHANGED <<clock, dbVars, pc, mode, runVars, batch_size, err, fetched,
                 stmts, srcLog, preCache, preBws>>

\* ---------------------------------------------------------- a new command
\* the state every command starts from: a new process, new connections
StartCommand(m) ==
  /\ pc \in Terminal
  /\ mode' = m
  /\ err' = "none"
  /\ txn' = cache
  /\ ids' = {}
  /\ last_updated' = NoTime
  /\ cursor' = <<>>
  /\ fetched' = <<>>
  /\ stmts' = <<>>
  /\ srcLog' = <<>>
  /\ preCache' = cache
  /\ preBws' = bws

\* the command ends with an exception: the open transaction is never committed
Raise(e) ==
  /\ pc' = "failed"
  /\ err' = e
  /\ txn' = cache

\* update_metadata_cache_timestamp(conn, ts, key), then conn.commit()
WriteCheckpoint(ts) ==
  IF bwsExists
  THEN /\ bws' = Upsert(bws, CACHE_TIMESTAMP_KEY, ts)
       /\ pc' = "done"
       /\ UNCHANGED <<err, txn>>
  ELSE /\ Raise("UndefinedTable")
       /\ bws' = bws

\* --------------------------------------------------------- full build
\* FullStart without the table_exists() gate on required_tables
FullStartWithoutGate ==
  /\ UNCHANGED auxVars
  /\ StartCommand("full")
  /\ \E required \in SUBSET RequiredTables, existing \in SUBSET RequiredTables :
       required_missing' = required \ existing
  /\ \E t \in NowInNewCommand : clock' = t /\ new_timestamp' = t
  /\ timestamp' = NoTime
  /\ pc' = "full_run"
  /\ sourceStable' = "none"
  /\ UNCHANGED <<src, tableExists, cache, bwsExists, bws, batch_size>>

\* create_metadata_cache up to new_timestamp = datetime.now(): the caller
\* passes required_tables (the entity's entry point passes the empty list),
\* and the command returns when table_exists() is false for one of them
FullStart ==
  /\ UNCHANGED auxVars
  /\ StartCommand("full")
  /\ \E required \in SUBSET RequiredTables, existing \in SUBSET RequiredTables :
       /\ required_missing' = required \ existing
       /\ IF required \ existing # {}
          THEN /\ pc' = "returned_required_missing"
               /\ new_timestamp' = NoTime
               /\ clock' = clock
               /\ sourceStable' = "none"
          ELSE /\ \E t \in NowInNewCommand : clock' = t /\ new_timestamp' = t
               /\ pc' = "full_run"
               /\ sourceStable' =
                    IF mode = "full" /\ pc = "done" /\ sourceStable = "q1"
                    THEN "prev" ELSE "none"
  /\ timestamp' = NoTime
  /\ UNCHANGED <<src, tableExists, cache, bwsExists, bws, batch_size>>

\* cache.run(), first part: the table is rebuilt from nothing,
\* pre_insert_queries_db_setup sets the planner hints and last_updated, and
\* the full source query is executed
FullRunSetup ==
  /\ UNCHANGED auxVars
  /\ pc = "full_run"
  /\ txn' = {}
  /\ \E t \in Now : clock' = t /\ last_updated' = t
  /\ \E result \in Perms(FullQuery) : cursor' = result /\ fetched' = result
  /\ srcLog' = srcLog \o <<ConfigPostgresJoinLimit("curs"),
                         SourceQuery("full", "curs")>>
  /\ sourceStable' = IF sourceStable = "prev" THEN "q2" ELSE "q1"
  /\ pc' = "full_loop"
  /\ UNCHANGED <<src, tableExists, cache, bwsExists, bws, mode, timestamp,
                 new_timestamp, ids, required_missing, batch_size, err, stmts,
                 preCache, preBws>>

\* process_row on each of the next n fetched rows
BatchRows(n) == [k \in 1..n |-> CacheRow(last_updated, cursor[k])]

\* cache.run(), the loop: one batch is inserted and committed; the last
\* batch may be partial
FullBatch ==
  /\ UNCHANGED auxVars
  /\ pc = "full_loop"
  /\ LET n == Min(batch_size, Len(cursor))
         batch == BatchRows(n)
     IN IF PrimaryKeyViolated(txn, batch)
        THEN /\ Raise("UniqueViolation")
             /\ stmts' = stmts \o <<Stmt("insert", batch)>>
             /\ UNCHANGED <<tableExists, cache, cursor>>
        ELSE /\ txn' = InsertRows(txn, batch)
             /\ cache' = InsertRows(txn, batch)
             /\ tableExists' = TRUE
             /\ stmts' = stmts \o <<Stmt("insert", batch), Stmt("commit", <<>>)>>
             /\ cursor' = SubSeq(cursor, n + 1, Len(cursor))
             /\ pc' = IF n = Len(cursor) THEN "full_checkpoint" ELSE "full_loop"
             /\ err' = err
  /\ UNCHANGED <<clock, src, bwsExists, bws, mode, timestamp, new_timestamp,
                 ids, last_updated, required_missing, batch_size, fetched,
                 srcLog, preCache, preBws, sourceStable>>

\* the newest change timestamp of the source rows
NewestSourceChange ==
  LET S == {src[i].changed : i \in {j \in Ids : src[j] # NoRow}}
  IN IF S = {} THEN new_timestamp ELSE CHOOSE t \in S : \A u \in S : u <= t

\* the clock reading when the command completes
FullCheckpointAtCompletion == clock

\* the timestamp create_metadata_cache passes to the checkpoint store
FullCheckpointValue == new_timestamp

\* FullCheckpoint skipping the write when the build produced no row
FullCheckpointOnlyIfRows ==
  /\ UNCHANGED auxVars
  /\ pc = "full_checkpoint"
  /\ IF cache = {}
     THEN /\ pc' = "done"
          /\ UNCHANGED <<bws, err, txn>>
     ELSE WriteCheckpoint(FullCheckpointValue)
  /\ UNCHANGED <<clock, src, tableExists, cache, bwsExists, mode, runVars,
                 batch_size, histVars>>

\* create_metadata_cache after cache.run()
FullCheckpoint ==
  /\ UNCHANGED auxVars
  /\ pc = "full_checkpoint"
  /\ WriteCheckpoint(FullCheckpointValue)
  /\ UNCHANGED <<clock, src, tableExists, cache, bwsExists, mode, runVars,
                 batch_size, histVars>>

\* -------------------------------------------------- incremental update
\* IncStart without the "if not timestamp: return" gate
IncStartWithoutCheckpointGate ==
  /\ UNCHANGED auxVars
  /\ StartCommand("inc")
  /\ required_missing' = {}
  /\ sourceStable' = "none"
  /\ IF ~tableExists
     THEN /\ pc' = "returned_no_table"
          /\ timestamp' = NoTime
          /\ new_timestamp' = NoTime
          /\ clock' = clock
     ELSE /\ timestamp' = SelectTimestamp(CACHE_TIMESTAMP_KEY)
          /\ \E t \in NowInNewCommand : clock' = t /\ new_timestamp' = t
          /\ pc' = "inc_query"
  /\ UNCHANGED <<src, tableExists, cache, bwsExists, bws, batch_size>>

\* incremental_update_metadata_cache up to new_timestamp = datetime.now()
IncStart ==
  /\ UNCHANGED auxVars
  /\ StartCommand("inc")
  /\ required_missing' = {}
  /\ sourceStable' = "none"
  /\ IF ~tableExists
     THEN /\ pc' = "returned_no_table"
          /\ timestamp' = NoTime
          /\ new_timestamp' = NoTime
          /\ clock' = clock
     ELSE /\ timestamp' = SelectTimestamp(CACHE_TIMESTAMP_KEY)
          /\ IF SelectTimestamp(CACHE_TIMESTAMP_KEY) = NoTime
             THEN /\ pc' = "returned_no_checkpoint"
                  /\ new_timestamp' = NoTime
                  /\ clock' = clock
             ELSE /\ \E t \in NowInNewCommand : clock' = t /\ new_timestamp' = t
                  /\ pc' = "inc_query"
  /\ UNCHANGED <<src, tableExists, cache, bwsExists, bws, batch_size>>

\* IncDirtyQuery storing new_timestamp as soon as the dirty ids are known
IncDirtyQueryStoresCheckpoint ==
  /\ UNCHANGED auxVars
  /\ pc = "inc_query"
  /\ \/ /\ ids' = LastUpdatedItems(timestamp)
        /\ srcLog' = srcLog \o <<ConfigPostgresJoinLimit("curs"),
                                   SourceQuery("dirty", "curs")>>
     \/ /\ ids' = {}
        /\ srcLog' = srcLog \o <<ConfigPostgresJoinLimit("curs"),
                                   SourceQuery("dirty_error", "curs")>>
  /\ bws' = IF bwsExists THEN Upsert(bws, CACHE_TIMESTAMP_KEY, new_timestamp)
            ELSE bws
  /\ pc' = "inc_update"
  /\ UNCHANGED <<clock, src, tableExists, cache, txn, bwsExists, mode,
                 timestamp, new_timestamp, last_updated, cursor,
                 required_missing, batch_size, err, fetched, stmts, preCache,
                 preBws, sourceStable>>

\* ids = cache.query_last_updated_items(timestamp); an OperationalError is
\* caught and the empty set returned
IncDirtyQuery ==
  /\ UNCHANGED auxVars
  /\ pc = "inc_query"
  /\ \/ /\ ids' = LastUpdatedItems(timestamp)
        /\ srcLog' = srcLog \o <<ConfigPostgresJoinLimit("curs"),
                                   SourceQuery("dirty", "curs")>>
     \/ /\ ids' = {}
        /\ srcLog' = srcLog \o <<ConfigPostgresJoinLimit("curs"),
                                   SourceQuery("dirty_error", "curs")>>
  /\ pc' = "inc_update"
  /\ UNCHANGED <<clock, src, dbVars, mode, timestamp, new_timestamp,
                 last_updated, cursor, required_missing, batch_size, err,
                 fetched, stmts, preCache, preBws, sourceStable>>

\* IncUpdateSetup running the unrestricted query when there are no ids
IncUpdateSetupQueriesAll ==
  /\ UNCHANGED auxVars
  /\ pc = "inc_update"
  /\ \E t \in Now : clock' = t /\ last_updated' = t
  /\ \E result \in Perms(IF ids = {} THEN FullQuery ELSE SubsetQuery(ids)) :
       /\ cursor' = result
       /\ fetched' = result
       /\ pc' = IF result = <<>> THEN "inc_return" ELSE "inc_loop"
  /\ srcLog' = srcLog \o <<ConfigPostgresJoinLimit("mb_curs"),
                               SourceQuery("subset", "mb_curs")>>
  /\ UNCHANGED <<err, txn>>
  /\ UNCHANGED <<src, tableExists, cache, bwsExists, bws, mode, timestamp,
                 new_timestamp, ids, required_missing, batch_size, stmts,
                 preCache, preBws, sourceStable>>

\* IncUpdateSetup stamping the rows with the checkpoint read at the start
IncUpdateSetupStampsCheckpoint ==
  /\ UNCHANGED auxVars
  /\ pc = "inc_update"
  /\ clock' = clock
  /\ last_updated' = timestamp
  /\ IF ExecuteValuesRaises(ids)
     THEN /\ Raise("IndexError")
          /\ srcLog' = srcLog \o <<ConfigPostgresJoinLimit("mb_curs")>>
          /\ UNCHANGED <<cursor, fetched>>
     ELSE /\ \E result \in Perms(SubsetQuery(ids)) :
               /\ cursor' = result
               /\ fetched' = result
               /\ pc' = IF result = <<>> THEN "inc_return" ELSE "inc_loop"
          /\ srcLog' = srcLog \o <<ConfigPostgresJoinLimit("mb_curs"),
                               SourceQuery("subset", "mb_curs")>>
          /\ UNCHANGED <<err, txn>>
  /\ UNCHANGED <<src, tableExists, cache, bwsExists, bws, mode, timestamp,
                 new_timestamp, ids, required_missing, batch_size, stmts,
                 preCache, preBws, sourceStable>>

\* update_dirty_cache_items up to the loop: pre_insert_queries_db_setup and
\* the subset query
IncUpdateSetup ==
  /\ UNCHANGED auxVars
  /\ pc = "inc_update"
  /\ \E t \in Now : clock' = t /\ last_updated' = t
  /\ IF ExecuteValuesRaises(ids)
     THEN /\ Raise("IndexError")
          /\ srcLog' = srcLog \o <<ConfigPostgresJoinLimit("mb_curs")>>
          /\ UNCHANGED <<cursor, fetched>>
     ELSE /\ \E result \in Perms(SubsetQuery(ids)) :
               /\ cursor' = result
               /\ fetched' = result
               /\ pc' = IF result = <<>> THEN "inc_return" ELSE "inc_loop"
          /\ srcLog' = srcLog \o <<ConfigPostgresJoinLimit("mb_curs"),
                               SourceQuery("subset", "mb_curs")>>
          /\ UNCHANGED <<err, txn>>
  /\ UNCHANGED <<src, tableExists, cache, bwsExists, bws, mode, timestamp,
                 new_timestamp, ids, required_missing, batch_size, stmts,
                 preCache, preBws, sourceStable>>

\* IncFlush with the delete of a batch committed on its own, before the insert
IncFlushCommitsDeleteFirst ==
  /\ UNCHANGED auxVars
  /\ pc = "inc_loop"
  /\ LET n == Min(batch_size, Len(cursor))
         rows == BatchRows(n)
         args == BatchDeleteArgs(rows)
     IN IF DeleteRaises(args)
        THEN /\ Raise("InvalidTextRepresentation")
             /\ stmts' = stmts \o <<Stmt("delete", args)>>
             /\ UNCHANGED <<cache, cursor>>
        ELSE IF PrimaryKeyViolated(DeleteRows(txn, args), rows)
        THEN /\ pc' = "failed"
             /\ err' = "UniqueViolation"
             /\ txn' = DeleteRows(txn, args)
             /\ cache' = DeleteRows(txn, args)
             /\ stmts' = stmts \o <<Stmt("delete", args), Stmt("insert", rows)>>
             /\ UNCHANGED cursor
        ELSE /\ txn' = InsertRows(DeleteRows(txn, args), rows)
             /\ cache' = InsertRows(DeleteRows(txn, args), rows)
             /\ stmts' = stmts \o <<Stmt("delete", args), Stmt("insert", rows),
                                    Stmt("commit", <<>>)>>
             /\ cursor' = SubSeq(cursor, n + 1, Len(cursor))
             /\ pc' = IF n = Len(cursor) THEN "inc_return" ELSE "inc_loop"
             /\ err' = err
  /\ UNCHANGED <<clock, src, tableExists, bwsExists, bws, mode, timestamp,
                 new_timestamp, ids, last_updated, required_missing,
                 batch_size, fetched, srcLog, preCache, preBws, sourceStable>>

\* the loop of update_dirty_cache_items up to and including one flush: rows
\* are appended until batch_size are held or the cursor is exhausted, then
\* delete_rows, insert_rows and conn.commit() run in this order
IncFlush ==
  /\ UNCHANGED auxVars
  /\ pc = "inc_loop"
  /\ LET n == Min(batch_size, Len(cursor))
         rows == BatchRows(n)
         args == BatchDeleteArgs(rows)
     IN IF DeleteRaises(args)
        THEN /\ Raise("InvalidTextRepresentation")
             /\ stmts' = stmts \o <<Stmt("delete", args)>>
             /\ UNCHANGED <<cache, cursor>>
        ELSE IF PrimaryKeyViolated(DeleteRows(txn, args), rows)
        THEN /\ Raise("UniqueViolation")
             /\ stmts' = stmts \o <<Stmt("delete", args), Stmt("insert", rows)>>
             /\ UNCHANGED <<cache, cursor>>
        ELSE /\ txn' = InsertRows(DeleteRows(txn, args), rows)
             /\ cache' = InsertRows(DeleteRows(txn, args), rows)
             /\ stmts' = stmts \o <<Stmt("delete", args), Stmt("insert", rows),
                                    Stmt("commit", <<>>)>>
             /\ cursor' = SubSeq(cursor, n + 1, Len(cursor))
             /\ pc' = IF n = Len(cursor) THEN "inc_return" ELSE "inc_loop"
             /\ err' = err
  /\ UNCHANGED <<clock, src, tableExists, bwsExists, bws, mode, timestamp,
                 new_timestamp, ids, last_updated, required_missing,
                 batch_size, fetched, srcLog, preCache, preBws, sourceStable>>

IncCheckpointAtCompletion == clock

\* the timestamp incremental_update_metadata_cache passes to the store
IncCheckpointValue == new_timestamp

\* incremental_update_metadata_cache after update_dirty_cache_items
IncFinish ==
  /\ UNCHANGED auxVars
  /\ pc = "inc_return"
  /\ IF Cardinality(ids) = 0
     THEN /\ pc' = "returned_no_ids"
          /\ UNCHANGED <<bws, err, txn>>
     ELSE WriteCheckpoint(IncCheckpointValue)
  /\ UNCHANGED <<clock, src, tableExists, cache, bwsExists, mode, runVars,
                 batch_size, histVars>>

\* the process is killed or the connection lost while a command runs
Crash ==
  /\ UNCHANGED auxVars
  /\ pc \in Running
  /\ Raise("crash")
  /\ UNCHANGED <<clock, src, tableExists, cache, bwsExists, bws, mode,
                 runVars, batch_size, histVars>>

Next ==
  \/ \E i \in Ids, n \in Names : SourceWrite(i, n)
  \/ \E i \in Ids : SourceDelete(i)
  \/ FullStart
  \/ FullRunSetup
  \/ FullBatch
  \/ FullCheckpoint
  \/ IncStart
  \/ IncDirtyQuery
  \/ IncUpdateSetup
  \/ IncFlush
  \/ IncFinish
  \/ Crash

Spec == Init /\ [][Next]_vars

\* ------------------------------------------------------- entity adapters
\* the adapters whose query_last_updated_items builds a query text; the
\* others leave it blank: query = f""" """
HasDirtyQueryText(e) == e \in {"blog", "blog_category", "post", "post_category"}

\* query_last_updated_items(timestamp) of adapter e. operational: the source
\* connection fails, the one exception the function catches. A blank query
\* text makes curs.execute raise ProgrammingError (can't execute an empty
\* query), which nothing catches.
QueryLastUpdatedItems(e, ts, operational) ==
  IF operational THEN <<"return", {}>>
  ELSE IF ~HasDirtyQueryText(e) THEN <<"raise", "ProgrammingError">>
  ELSE <<"return", LastUpdatedItems(ts)>>

\* cache.query_last_updated_items(timestamp) called on adapter e
CallQueryLastUpdatedItems(e, ts, operational) ==
  /\ entity' = e
  /\ call' = [fn |-> "query_last_updated_items",
              arg |-> [timestamp |-> ts, operational |-> operational],
              done |-> TRUE,
              outcome |-> QueryLastUpdatedItems(e, ts, operational)]
  /\ UNCHANGED <<cacheVars, entityVars>>

NextDirtyQuery ==
  \/ \E i \in Ids, n \in Names : SourceWrite(i, n)
  \/ \E i \in Ids : SourceDelete(i)
  \/ \E e \in Entities, ts \in Times, operational \in BOOLEAN :
       CallQueryLastUpdatedItems(e, ts, operational)

\* the dirty-id query of each adapter called against a changing source
SpecDirtyQuery == Init /\ [][NextDirtyQuery]_vars

\* -------------------------------------------------------- row transform
\* the characters of a title or name: an upper-case letter, a lower-case
\* letter, the question mark and two kinds of whitespace
Chars == {"A", "a", "?", " ", "\t"}

\* a text is the sequence of its characters
Texts == UNION {[1..n -> Chars] : n \in 0..MaxLen}
ShortTexts == {t \in Texts : Len(t) <= 1}

\* str.lower()
Lower(text) == [k \in 1..Len(text) |-> IF text[k] = "A" THEN "a" ELSE text[k]]

\* str.replace(old, "")
Replace(text, old) == SelectSeq(text, LAMBDA c : c # old)

\* the class \s of the re module
IsSpace(c) == c \in {" ", "\t"}

\* re.sub(r"\s+", "-", text)
RECURSIVE SubWhitespaceRuns(_)
SubWhitespaceRuns(text) ==
  IF text = <<>> THEN <<>>
  ELSE IF ~IsSpace(Head(text)) THEN <<Head(text)>> \o SubWhitespaceRuns(Tail(text))
  ELSE IF Len(text) > 1 /\ IsSpace(text[2]) THEN SubWhitespaceRuns(Tail(text))
  ELSE <<"-">> \o SubWhitespaceRuns(Tail(text))

\* the adapters whose _create_slug has text.lower().replace("?", ""); the
\* others have text.lower() alone
StripsQuestionMark(e) == e \in {"blog", "post"}

\* _create_slug(text) of adapter e; no caller passes id_
CreateSlug(e, text) ==
  LET lowered == Lower(text)
      stripped == IF StripsQuestionMark(e) THEN Replace(lowered, "?") ELSE lowered
  IN SubWhitespaceRuns(stripped)

\* self._create_slug(text) called on the adapter
CallCreateSlug ==
  /\ call.fn = "_create_slug"
  /\ ~call.done
  /\ call' = [call EXCEPT !.done = TRUE, !.outcome = CreateSlug(entity, call.arg)]
  /\ UNCHANGED <<entity, cacheVars, entityVars>>

\* Python values of a jsonb column read through psycopg2, and ujson.dumps
None == <<"None">>
PyList(items) == <<"list", items>>
UjsonDumps(items) == <<"json", items>>

\* the adapters whose cache table has a categories column
WithCategories == {"blog", "company", "glossary", "post"}

\* a category of the source
Categories == {[id |-> i, name |-> n] : i \in Ids, n \in {<<"A">>, <<"?">>}}

\* the categories linked to an entity, in the order the source returns them
LinkedCategories == UNION {[1..n -> Categories] : n \in 0..MaxId}

\* the row of get_metadata_cache_query for entity i: jsonb_agg over the inner
\* join with the link table, LEFT JOINed to the entity, is NULL when nothing
\* is linked
SourceRow(i, title, linked) ==
  [id |-> i, title |-> title,
   categories |-> IF linked = <<>> THEN None ELSE PyList(linked)]

\* the categories column storing an empty JSON array for an absent array
CategoriesColumnEmptyForAbsent(e, categories) ==
  IF categories # None
  THEN UjsonDumps([k \in 1..Len(categories[2]) |->
                     [id |-> categories[2][k].id,
                      name |-> categories[2][k].name,
                      slug |-> CreateSlug(e, categories[2][k].name)]])
  ELSE UjsonDumps(<<>>)

\* the categories column of create_json_data
CategoriesColumn(e, categories) ==
  IF categories # None
  THEN UjsonDumps([k \in 1..Len(categories[2]) |->
                     [id |-> categories[2][k].id,
                      name |-> categories[2][k].name,
                      slug |-> CreateSlug(e, categories[2][k].name)]])
  ELSE None

\* create_json_data(row) of an adapter with categories: (id, title, slug,
\* categories), the columns copied from the row unchanged left out
CreateJsonDataWithCategories(e, row) ==
  <<row.id, row.title, CreateSlug(e, row.title),
    CategoriesColumn(e, row.categories)>>

\* self.create_json_data(row) called on the adapter
CallCreateJsonData ==
  /\ call.fn = "create_json_data"
  /\ ~call.done
  /\ call' = [call EXCEPT !.done = TRUE,
                          !.outcome = CreateJsonDataWithCategories(entity, call.arg.row)]
  /\ UNCHANGED <<entity, cacheVars, entityVars>>

\* the inputs of the row transform: a text for _create_slug, the source row
\* of an entity for create_json_data
InitTransform ==
  /\ InitCache
  /\ InitEntities
  /\ \/ /\ entity \in Entities
        /\ \E text \in Texts :
             call = [fn |-> "_create_slug", arg |-> text, done |-> FALSE,
                     outcome |-> <<>>]
     \/ /\ entity \in WithCategories
        /\ \E i \in Ids, title \in ShortTexts, linked \in LinkedCategories :
             call = [fn |-> "create_json_data",
                     arg |-> [linked |-> linked,
                              row |-> SourceRow(i, title, linked)],
                     done |-> FALSE, outcome |-> <<>>]

NextTransform ==
  \/ CallCreateSlug
  \/ CallCreateJsonData

\* the row transform of each adapter applied to every input
SpecTransform == InitTransform /\ [][NextTransform]_vars

\* ------------------------------------------- commands and entry points
\* everything of one cache's run except the clock
cacheVarsButClock == <<src, tableExists, cache, txn, bwsExists, bws, pc, mode,
                       timestamp, new_timestamp, ids, last_updated, cursor,
                       required_missing, batch_size, err, fetched, stmts,
                       srcLog, preCache, preBws, sourceStable>>

\* an entry point passing the key of the blog cache for the blog categories
EntryKeyCopied(e) ==
  IF e = "blog_category" THEN TimestampKey("blog") ELSE TimestampKey(e)

\* the key create_<e>_cache and incremental_update_<e>_cache pass on
EntryKey(e) == TimestampKey(e)

\* the table of the class create_<e>_cache and incremental_update_<e>_cache
\* pass on
EntryTable(e) == TableName(e)

\* the calls in the body of build_all_caches; those of create_blog_cache,
\* create_blog_category_cache, create_glossary_cache and
\* create_glossary_category_cache are commented out
BuildAllCaches == <<"company", "company_category", "post", "post_category">>

\* manage.py build_all_caches
StartBuildAllCaches ==
  /\ queue = <<>>
  /\ clock + 1 \in Times
  /\ clock' = clock + 1
  /\ command' = <<"build_all_caches">>
  /\ queue' = [k \in 1..Len(BuildAllCaches) |-> <<"create", BuildAllCaches[k]>>]
  /\ ran' = {}
  /\ UNCHANGED <<tables, checkpoints, procs, cacheVarsButClock, adapterVars>>

\* manage.py build_<e>_cache
StartBuildCache(e) ==
  /\ queue = <<>>
  /\ clock + 1 \in Times
  /\ clock' = clock + 1
  /\ command' = <<"build_cache", e>>
  /\ queue' = <<<<"create", e>>>>
  /\ ran' = {}
  /\ UNCHANGED <<tables, checkpoints, procs, cacheVarsButClock, adapterVars>>

\* incremental_update_<e>_cache() called by a scheduler
StartIncrementalUpdate(e) ==
  /\ queue = <<>>
  /\ clock + 1 \in Times
  /\ clock' = clock + 1
  /\ command' = <<"incremental_update", e>>
  /\ queue' = <<<<"incremental", e>>>>
  /\ ran' = {}
  /\ UNCHANGED <<tables, checkpoints, procs, cacheVarsButClock, adapterVars>>

\* create_<e>_cache(): create_metadata_cache(<E>Cache, <E>_CACHE_TIMESTAMP_KEY,
\* []). It rebuilds the table and stores new_timestamp under the key, or
\* raises before the checkpoint write and ends the command.
CreateCache ==
  /\ queue # <<>>
  /\ Head(queue)[1] = "create"
  /\ LET e == Head(queue)[2] IN
       \E new \in Now, ok \in BOOLEAN :
         \E t \in {u \in Times : u >= new /\ u <= new + 1} :
           /\ clock' = t
           /\ tables' = [tables EXCEPT ![EntryTable(e)] = t]
           /\ IF ok
              THEN /\ checkpoints' = [checkpoints EXCEPT ![EntryKey(e)] = new]
                   /\ ran' = ran \cup {e}
                   /\ queue' = Tail(queue)
                   /\ UNCHANGED command
              ELSE /\ command' = <<"failed">>
                   /\ queue' = <<>>
                   /\ UNCHANGED <<checkpoints, ran>>
  /\ UNCHANGED <<procs, cacheVarsButClock, adapterVars>>

\* incremental_update_<e>_cache(): incremental_update_metadata_cache(<E>Cache,
\* <E>_CACHE_TIMESTAMP_KEY). It returns when the table holds nothing or no
\* checkpoint is stored, raises when the dirty-id query raises or finds
\* no id, and otherwise refreshes rows and stores new_timestamp.
IncrementalUpdate ==
  /\ queue # <<>>
  /\ Head(queue)[1] = "incremental"
  /\ queue' = <<>>
  /\ LET e == Head(queue)[2] IN
       IF tables[EntryTable(e)] = NoTime \/ checkpoints[EntryKey(e)] = NoTime
       THEN UNCHANGED <<clock, command, tables, checkpoints>>
       ELSE \E new \in Now, found \in BOOLEAN :
              IF QueryLastUpdatedItems(e, checkpoints[EntryKey(e)], FALSE)[1] = "raise"
                 \/ ~found
              THEN /\ clock' = new
                   /\ command' = <<"failed">>
                   /\ UNCHANGED <<tables, checkpoints>>
              ELSE \E t \in {u \in Times : u >= new /\ u <= new + 1} :
                     /\ clock' = t
                     /\ tables' = [tables EXCEPT ![EntryTable(e)] = t]
                     /\ checkpoints' = [checkpoints EXCEPT ![EntryKey(e)] = new]
                     /\ UNCHANGED command
  /\ UNCHANGED <<ran, procs, cacheVarsButClock, adapterVars>>

NextEntities ==
  \/ StartBuildAllCaches
  \/ \E e \in Entities : StartBuildCache(e)
  \/ \E e \in Entities : StartIncrementalUpdate(e)
  \/ CreateCache
  \/ IncrementalUpdate

\* the commands of manage.py and the entry points of the eight adapters
SpecEntities == Init /\ [][NextEntities]_vars

\* ------------------------------------------------------ overlapping runs
\* the entity whose commands overlap
OverlapEntity == "blog_category"

\* process p enters create_metadata_cache and reads new_timestamp
ProcStartFull(p) ==
  /\ procs[p].pc = "idle"
  /\ \E t \in Now :
       /\ clock' = t
       /\ procs' = [procs EXCEPT ![p] = [pc |-> "run", kind |-> "full",
                                         new_timestamp |-> t]]
  /\ UNCHANGED <<command, queue, ran, tables, checkpoints, cacheVarsButClock,
                 adapterVars>>

\* process p enters incremental_update_metadata_cache with rows in the table
\* and a stored checkpoint, and reads new_timestamp
ProcStartIncremental(p) ==
  /\ procs[p].pc = "idle"
  /\ tables[EntryTable(OverlapEntity)] # NoTime
  /\ checkpoints[EntryKey(OverlapEntity)] # NoTime
  /\ \E t \in Now :
       /\ clock' = t
       /\ procs' = [procs EXCEPT ![p] = [pc |-> "run", kind |-> "inc",
                                         new_timestamp |-> t]]
  /\ UNCHANGED <<command, queue, ran, tables, checkpoints, cacheVarsButClock,
                 adapterVars>>

\* cache.run(), or query_last_updated_items and update_dirty_cache_items, of
\* process p: the rows are written, or an exception ends the command
ProcRefresh(p) ==
  /\ procs[p].pc = "run"
  /\ \E t \in Now, ok \in BOOLEAN :
       /\ clock' = t
       /\ IF ok
          THEN /\ tables' = [tables EXCEPT ![EntryTable(OverlapEntity)] = t]
               /\ procs' = [procs EXCEPT ![p].pc = "checkpoint"]
          ELSE /\ procs' = [procs EXCEPT ![p] = NoProc]
               /\ UNCHANGED tables
  /\ UNCHANGED <<command, queue, ran, checkpoints, cacheVarsButClock,
                 adapterVars>>

\* update_metadata_cache_timestamp(conn, new_timestamp, key) of process p:
\* the upsert sets the value whatever value is stored
ProcWriteCheckpoint(p) ==
  /\ procs[p].pc = "checkpoint"
  /\ checkpoints' = [checkpoints EXCEPT
                       ![EntryKey(OverlapEntity)] = procs[p].new_timestamp]
  /\ procs' = [procs EXCEPT ![p] = NoProc]
  /\ UNCHANGED <<clock, command, queue, ran, tables, cacheVarsButClock,
                 adapterVars>>

NextOverlap ==
  \/ \E p \in Procs : ProcStartFull(p)
  \/ \E p \in Procs : ProcStartIncremental(p)
  \/ \E p \in Procs : ProcRefresh(p)
  \/ \E p \in Procs : ProcWriteCheckpoint(p)

\* two processes running full builds and incremental updates of one entity
\* with nothing to keep them apart
SpecOverlap == Init /\ [][NextOverlap]_vars

\* ------------------------------------------------------------ properties
\* rows this command inserted and committed
CommittedRows ==
  UNION {Range(stmts[k][2]) :
           k \in {j \in 1..(Len(stmts) - 1) :
                    stmts[j][1] = "insert" /\ stmts[j + 1][1] = "commit"}}

\* ids of the rows of a table or of a batch
IdsOf(S) == {Col(r, 1) : r \in S}

\* the dirty-id query of the running incremental command has been answered
DirtyQueryAnswered == mode = "inc" /\ Len(srcLog) >= 2

\* C1: every committed state of the cache table, whatever sequence of full
\* builds and incremental updates (aborted ones included) produced it, holds
\* at most one row for any id.
C1_AtMostOneRowPerId ==
  \A i \in Ids : Cardinality(RowsWithId(cache, i)) <= 1

\* an incremental update replaced the row of an id and then aborted
C1_Witness ==
  /\ mode = "inc"
  /\ pc = "failed"
  /\ \E r \in cache, q \in preCache : Col(r, 1) = Col(q, 1) /\ r # q

\* C2 as claimed: once an incremental update with a non-empty dirty-id set
\* has completed, every id the subset query returned has exactly one row in
\* the cache table, the one derived in this run.
C2_CompletedRunHoldsFreshRows ==
  (mode = "inc" /\ pc = "done" /\ ids # {}) =>
    \A k \in 1..Len(fetched) :
      RowsWithId(cache, fetched[k][1]) = {CacheRow(last_updated, fetched[k])}

\* C3 as claimed: in every flush the delete comes first and targets exactly
\* the ids of the rows the following insert writes, and the commit follows
\* the insert.
C3_DeleteTargetsBatchIds ==
  mode = "inc" =>
    \A k \in 1..Len(stmts) :
      /\ stmts[k][1] = "insert" =>
           /\ k > 1
           /\ stmts[k - 1][1] = "delete"
           /\ ~DeleteRaises(stmts[k - 1][2])
           /\ DeleteTargets(stmts[k - 1][2]) = IdsOf(Range(stmts[k][2]))
      /\ stmts[k][1] = "commit" => k > 1 /\ stmts[k - 1][1] = "insert"

\* C4 as claimed: while an incremental update runs, no committed state of
\* the cache table shows two rows for one id or lacks an id that was
\* present before the run.
C4_ReaderSeesNoDuplicateNoGap ==
  mode = "inc" =>
    /\ \A i \in Ids : Cardinality(RowsWithId(cache, i)) <= 1
    /\ IdsOf(preCache) \subseteq IdsOf(cache)

\* C5: when the dirty-id query yields the empty set, the incremental
\* update issues no statement on the cache table, the committed rows are
\* those from before the command, and the checkpoint record is unchanged.
C5_EmptyDirtySetWritesNothing ==
  (DirtyQueryAnswered /\ ids = {}) =>
    /\ stmts = <<>>
    /\ cache = preCache
    /\ bws = preBws

\* the dirty-id query found nothing and the command has ended
C5_Witness ==
  /\ DirtyQueryAnswered
  /\ srcLog[2][1] = "dirty"
  /\ ids = {}
  /\ pc \in Terminal
  /\ preCache # {}
  /\ StoredTimestamp(preBws, CACHE_TIMESTAMP_KEY) # NoTime

\* C6: across full builds and incremental updates run one after another,
\* the checkpoint stored under the entity's key never decreases (and never
\* disappears).
C6_CheckpointNeverDecreases ==
  [][SelectTimestamp(CACHE_TIMESTAMP_KEY)' >= SelectTimestamp(CACHE_TIMESTAMP_KEY)]_vars

\* a command replaced an existing checkpoint by a later one
C6_Witness ==
  /\ pc = "done"
  /\ StoredTimestamp(preBws, CACHE_TIMESTAMP_KEY) # NoTime
  /\ SelectTimestamp(CACHE_TIMESTAMP_KEY) > StoredTimestamp(preBws, CACHE_TIMESTAMP_KEY)

\* C7: the checkpoint a full build writes is the timestamp it captured
\* before the source query, and during and after a full build (completed
\* or aborted) the stored checkpoint is not later than last_updated of any
\* row that build committed.
C7_FullCheckpointNotAfterRows ==
  mode = "full" =>
    /\ pc = "done" =>
         /\ SelectTimestamp(CACHE_TIMESTAMP_KEY) = new_timestamp
         /\ new_timestamp <= last_updated
    /\ \A r \in CommittedRows : SelectTimestamp(CACHE_TIMESTAMP_KEY) <= Col(r, 0)

\* a full build committed rows and completed after the clock had moved on
C7_Witness ==
  /\ mode = "full"
  /\ pc = "done"
  /\ CommittedRows # {}
  /\ SelectTimestamp(CACHE_TIMESTAMP_KEY) < clock

\* C8, state part: an incremental update leaves the checkpoint alone while
\* it runs; when it has completed, the dirty-id set was not empty, every
\* fetched row has been flushed and committed, and the checkpoint is the
\* timestamp the command captured.
C8_CheckpointAfterLastBatch ==
  mode = "inc" =>
    /\ pc \in Running => bws = preBws
    /\ pc = "done" =>
         /\ ids # {}
         /\ cursor = <<>>
         /\ txn = cache
         /\ IdsOf(CommittedRows) = {fetched[k][1] : k \in 1..Len(fetched)}
         /\ bws = Upsert(preBws, CACHE_TIMESTAMP_KEY, new_timestamp)

\* C8, step part: the captured timestamp is assigned while no query has
\* been issued on the source, and is not assigned again while the command
\* runs.
C8_TimestampCapturedAtStart ==
  /\ (new_timestamp' # new_timestamp /\ mode' = "inc") => srcLog' = <<>>
  /\ (mode = "inc" /\ pc \in Running) => new_timestamp' = new_timestamp

\* C8: in an incremental update with a non-empty dirty-id set the
\* checkpoint is written only after the last batch has been committed, and
\* its value is the timestamp captured at the start, before the dirty-id
\* query, not the time of completion.
C8_CheckpointIsStartTime ==
  [](C8_CheckpointAfterLastBatch) /\ [][C8_TimestampCapturedAtStart]_vars

\* an incremental update committed two batches and completed later than
\* the timestamp it stored
C8_Witness ==
  /\ mode = "inc"
  /\ pc = "done"
  /\ Len(stmts) >= 6
  /\ SelectTimestamp(CACHE_TIMESTAMP_KEY) < clock

\* C9 as claimed: when an incremental update ends without the process
\* having been killed, every source row whose change timestamp is at or
\* after the checkpoint it read (the dirty-id set, as far as the source
\* still holds the row) has been re-derived by it.
C9_ChangedRowsRederived ==
  (DirtyQueryAnswered /\ srcLog[2][1] = "dirty" /\ pc \in Terminal /\ err # "crash") =>
    \A i \in ids :
      (\E k \in 1..Len(fetched) : fetched[k][1] = i) =>
        \E r \in cache : Col(r, 1) = i /\ Col(r, 0) = last_updated

\* C10: an incremental update that finds no checkpoint record for the key
\* ends at once: no query on the source, no statement on the cache table,
\* no checkpoint record, the cache table as before.
C10_NoCheckpointIsNoOp ==
  (mode = "inc" /\ pc # "returned_no_table"
     /\ StoredTimestamp(preBws, CACHE_TIMESTAMP_KEY) = NoTime) =>
    /\ pc = "returned_no_checkpoint"
    /\ srcLog = <<>>
    /\ stmts = <<>>
    /\ cache = preCache
    /\ bws = preBws

\* the cache table holds rows and the source has rows, but no checkpoint
\* record exists
C10_Witness ==
  /\ mode = "inc"
  /\ pc = "returned_no_checkpoint"
  /\ cache # {}
  /\ bwsExists
  /\ FullQuery # {}

\* C11: the checkpoint read at the start of an incremental update is None,
\* with no exception raised, both when background_worker_state does not
\* exist and when it holds no record for the key; otherwise it is the
\* timestamp whose ISO text the record of the key holds.
C11_ReadAbsentOrStored ==
  (mode = "inc" /\ pc # "returned_no_table") =>
    LET recs == {r \in preBws : r.key = CACHE_TIMESTAMP_KEY}
    IN /\ err # "UndefinedTable"
       /\ IF ~bwsExists \/ recs = {}
          THEN timestamp = NoTime /\ pc = "returned_no_checkpoint" /\ err = "none"
          ELSE \A r \in recs : r.value = Isoformat(timestamp)

\* the checkpoint was read while the cache table held rows and
\* background_worker_state did not exist
C11_Witness ==
  /\ mode = "inc"
  /\ pc = "returned_no_checkpoint"
  /\ ~bwsExists
  /\ cache # {}

\* C12: when a table passed as required does not exist, the full build
\* returns before any mutation: no statement on the source or on the
\* destination (so the cache table is neither created nor changed, no row is
\* inserted), the checkpoint record is as before, and no exception is raised.
C12_MissingRequiredTableIsNoOp ==
  (mode = "full" /\ required_missing # {}) =>
    /\ pc = "returned_required_missing"
    /\ err = "none"
    /\ srcLog = <<>>
    /\ stmts = <<>>
    /\ cache = preCache
    /\ bws = preBws

\* a full build found a required table missing while the cache table held
\* rows, a checkpoint was stored and the source had changed since
C12_Witness ==
  /\ mode = "full"
  /\ required_missing # {}
  /\ cache # {}
  /\ SelectTimestamp(CACHE_TIMESTAMP_KEY) # NoTime
  /\ \E i \in Ids : src[i] # NoRow /\ src[i].changed > SelectTimestamp(CACHE_TIMESTAMP_KEY)

\* C13 as claimed: when the dirty-id query failed with an operational error,
\* the incremental update ends without an exception, with no statement on
\* the cache table, the committed rows and the checkpoint record as before.
C13_DirtyQueryErrorSkipsRefresh ==
  (DirtyQueryAnswered /\ srcLog[2][1] = "dirty_error" /\ pc \in Terminal
     /\ err # "crash") =>
    /\ err = "none"
    /\ stmts = <<>>
    /\ cache = preCache
    /\ bws = preBws

\* the statements of a log that were followed by a commit, applied to tbl
RECURSIVE CommittedEffect(_, _)
CommittedEffect(tbl, log) ==
  IF Len(log) >= 3 /\ log[1][1] = "delete" /\ log[2][1] = "insert"
       /\ log[3][1] = "commit"
  THEN CommittedEffect(InsertRows(DeleteRows(tbl, log[1][2]), log[2][2]),
                       SubSeq(log, 4, Len(log)))
  ELSE tbl

\* the number of statements of a kind in a log
CountOf(log, op) == Cardinality({k \in 1..Len(log) : log[k][1] = op})

\* C14: when a database error ends update_dirty_cache_items in batch k, the
\* run is over (the failing batch is not tried again), the committed cache
\* table is the table from before the run with batches 1..k-1 applied, and
\* neither the delete nor the insert of batch k shows in it.
C14_FailedBatchLeavesEarlierBatches ==
  (mode = "inc" /\ err \in {"InvalidTextRepresentation", "UniqueViolation"}) =>
    /\ pc = "failed"
    /\ stmts[Len(stmts)][1] # "commit"
    /\ CountOf(stmts, "delete") = CountOf(stmts, "commit") + 1
    /\ cache = CommittedEffect(preCache, stmts)
    /\ txn = cache
    /\ bws = preBws

\* the first batch was committed and changed the table, the second one
\* failed in its insert after its delete had removed a row
C14_Witness ==
  /\ mode = "inc"
  /\ err = "UniqueViolation"
  /\ Len(stmts) = 5
  /\ cache # preCache
  /\ DeleteRows(cache, stmts[4][2]) # cache

\* the full or the subset source query of the running command has been issued
SourceQueryIssued == \E k \in 1..Len(srcLog) : srcLog[k][1] \in {"full", "subset"}

\* C15, state part: every row the running (or last) command inserted and
\* committed carries the value last_updated holds.
C15_RowsCarryLastUpdated ==
  \A r \in CommittedRows : last_updated \in Times /\ Col(r, 0) = last_updated

\* C15, step part: last_updated changes only when a new command starts with
\* it unset, or from unset to a value while the source query has not been
\* issued; once set it stays for the rest of the command.
C15_AssignedBeforeQuery ==
  last_updated' # last_updated =>
    \/ pc \in Terminal /\ last_updated' = NoTime
    \/ last_updated = NoTime /\ ~SourceQueryIssued

\* C15: within one full build or one incremental update last_updated is
\* assigned once, before the source query is executed, and every row the
\* command writes carries that value.
C15_LastUpdatedSetOncePerRun ==
  [](C15_RowsCarryLastUpdated) /\ [][C15_AssignedBeforeQuery]_vars

\* a command committed two batches, and the clock moved on after
\* last_updated had been assigned
C15_Witness ==
  /\ pc = "done"
  /\ CountOf(stmts, "commit") = 2
  /\ Cardinality(CommittedRows) = 2
  /\ last_updated < clock

\* C16: every row an incremental update that read checkpoint T inserted and
\* committed has last_updated strictly greater than T, and not earlier than
\* the checkpoint the update stores when it completes.
C16_RowsLaterThanCheckpointRead ==
  mode = "inc" =>
    \A r \in CommittedRows :
      /\ Col(r, 0) > timestamp
      /\ Col(r, 0) >= new_timestamp
      /\ pc = "done" =>
           /\ SelectTimestamp(CACHE_TIMESTAMP_KEY) = new_timestamp
           /\ Col(r, 0) >= SelectTimestamp(CACHE_TIMESTAMP_KEY)

\* an incremental update completed with rows whose last_updated is the
\* very reading it stored as the new checkpoint
C16_Witness ==
  /\ mode = "inc"
  /\ pc = "done"
  /\ CommittedRows # {}
  /\ \E r \in CommittedRows : Col(r, 0) = SelectTimestamp(CACHE_TIMESTAMP_KEY)

\* the rows of a table without their last_updated column
NonTimestampColumns(tbl) == {Tail(r) : r \in tbl}

C18_UpsertLastWriterWins ==
  /\ \A r, q \in bws : r.key = q.key => r = q
  /\ pc = "done" =>
       /\ {r \in bws : r.key = CACHE_TIMESTAMP_KEY}
            = {[key |-> CACHE_TIMESTAMP_KEY, value |-> Isoformat(new_timestamp)]}
       /\ SelectTimestamp(CACHE_TIMESTAMP_KEY) = new_timestamp

\* a command overwrote the record another command had stored under the key
C18_Witness ==
  /\ pc = "done"
  /\ Cardinality(bws) = 1
  /\ \E r \in preBws : r.key = CACHE_TIMESTAMP_KEY /\ r \notin bws

\* C19 as claimed: after a completed incremental update, an id of the
\* dirty-id set for which the subset query returned no row (the source no
\* longer holds it) has no row in the cache table.
C19_DeletedUpstreamHasNoRow ==
  (mode = "inc" /\ pc = "done") =>
    \A i \in ids :
      (\A k \in 1..Len(fetched) : fetched[k][1] # i) => RowsWithId(cache, i) = {}

\* a full build passed the required-tables gate and ended without being
\* killed
FullBuildEnded ==
  mode = "full" /\ pc \in Terminal /\ required_missing = {} /\ err # "crash"

\* C20 as claimed: a full build that passes its gate and whose run()
\* completes always leaves the checkpoint it captured stored under the key,
\* whatever the number of rows.
C20_FullBuildAlwaysWritesCheckpoint ==
  FullBuildEnded => SelectTimestamp(CACHE_TIMESTAMP_KEY) = new_timestamp

\* C20 as amended: a full build that passes its gate and whose run()
\* completes always issues the checkpoint write, whatever the number of rows
\* (zero included): when background_worker_state exists the checkpoint it
\* captured is stored, and when it does not the write raises UndefinedTable
\* and no checkpoint is stored.
C20_FullBuildWritesCheckpointIfTableExists ==
  FullBuildEnded =>
    IF bwsExists
    THEN pc = "done" /\ SelectTimestamp(CACHE_TIMESTAMP_KEY) = new_timestamp
    ELSE err = "UndefinedTable" /\ bws = preBws

\* a full build over an empty source completed and replaced the checkpoint
C20_Witness ==
  /\ mode = "full"
  /\ pc = "done"
  /\ fetched = <<>>
  /\ cache = {}
  /\ preCache # {}
  /\ bws # preBws
  /\ SelectTimestamp(CACHE_TIMESTAMP_KEY) = new_timestamp

\* C21: for every one of the eight adapters, query_last_updated_items(T)
\* called while the source connection works returns the set of the ids of
\* the entity whose source data changed at or after T, a change made at T
\* itself included.
C21_DirtyQueryReturnsChangedIds ==
  (call.fn = "query_last_updated_items" /\ ~call.arg.operational)
    => call.outcome =
         <<"return", {i \in Ids : src[i] # NoRow
                                    /\ src[i].changed >= call.arg.timestamp}>>

\* the planner settings: genetic query optimization off, both collapse
\* limits raised above PostgreSQL's default of 8
PlannerSettings == {"SET geqo = off", "SET from_collapse_limit = 15",
                    "SET join_collapse_limit = 15"}

\* C22: every query a command issues against the source (the full query, the
\* subset query, the dirty-id query) comes directly after the planner
\* settings issued by the same command on the same cursor.
C22_PlannerSettingsPrecedeEveryQuery ==
  \A k \in 1..Len(srcLog) :
    srcLog[k][1] \in {"full", "subset", "dirty", "dirty_error"} =>
      /\ k > 1
      /\ srcLog[k - 1][1] = "set"
      /\ srcLog[k - 1][2] = srcLog[k][2]
      /\ PlannerSettings \subseteq Range(srcLog[k - 1][3])

\* an incremental update, run after a full build stored its checkpoint, has
\* issued the dirty-id query and the subset query
C22_Witness ==
  /\ mode = "inc"
  /\ timestamp # NoTime
  /\ Len(srcLog) = 4
  /\ srcLog[2][1] = "dirty"
  /\ srcLog[4][1] = "subset"
  /\ cache # {}

\* the slug the contract asks for: lower case, every question mark removed,
\* every run of whitespace replaced by one hyphen
SlugOf(text) == SubWhitespaceRuns(Replace(Lower(text), "?"))

\* C23: the slug an adapter derives from a text is the text in lower case
\* with every '?' removed and every run of whitespace replaced by a single
\* hyphen, for every text.
C23_SlugLowerStripCollapse ==
  (call.fn = "_create_slug" /\ call.done) => call.outcome = SlugOf(call.arg)

\* C24: the categories column the row transform yields is null when the
\* source row has no linked categories, and otherwise the JSON list of the
\* {id, name, slug} objects of the linked categories in source order; it is
\* never an empty JSON array when nothing is linked.
C24_CategoriesNullOrJsonList ==
  (call.fn = "create_json_data" /\ call.done) =>
    LET linked == call.arg.linked
        column == call.outcome[4]
    IN /\ linked = <<>> => (column = None /\ column # UjsonDumps(<<>>))
       /\ linked # <<>> =>
            /\ column[1] = "json"
            /\ Len(column[2]) = Len(linked)
            /\ \A k \in 1..Len(linked) :
                 /\ column[2][k].id = linked[k].id
                 /\ column[2][k].name = linked[k].name
                 /\ column[2][k].slug = CreateSlug(entity, linked[k].name)

\* the transform applied to a row with no linked categories
C24_Witness ==
  /\ call.fn = "create_json_data"
  /\ call.done
  /\ call.arg.linked = <<>>
  /\ call.outcome[4] = None

\* C25: when build_all_caches has run to its end, the full build of every
\* one of the eight entity caches has run.
C25_BuildAllBuildsEveryEntity ==
  (command = <<"build_all_caches">> /\ queue = <<>>) => ran = Entities

\* C26: a full build or incremental update of entity E writes no cache table
\* but E's and no checkpoint record but the one under E's key, and the eight
\* checkpoint keys are pairwise distinct.
C26_WritesOnlyOwnTableAndKey ==
  /\ [](\A e1, e2 \in Entities : e1 # e2 => EntryKey(e1) # EntryKey(e2))
  /\ [][\A e \in Entities :
          (queue # <<>> /\ Head(queue)[2] = e) =>
            /\ \A t \in TableNames \ {TableName(e)} : tables'[t] = tables[t]
            /\ \A k \in TimestampKeys \ {TimestampKey(e)} :
                 checkpoints'[k] = checkpoints[k]]_vars

\* the blog categories are rebuilt and their checkpoint stored after the
\* blog cache was built and its checkpoint stored at another time
C26_Witness ==
  /\ command = <<"build_cache", "blog_category">>
  /\ queue = <<>>
  /\ tables[TableName("blog")] # NoTime
  /\ tables[TableName("blog_category")] # NoTime
  /\ checkpoints[TimestampKey("blog")] # NoTime
  /\ checkpoints[TimestampKey("blog_category")] # NoTime
  /\ checkpoints[TimestampKey("blog")] # checkpoints[TimestampKey("blog_category")]

\* the rows of the insert statements of a log that were committed, in order
RECURSIVE InsertedInOrder(_)
InsertedInOrder(log) ==
  IF Len(log) < 2 THEN <<>>
  ELSE IF log[1][1] = "insert" /\ log[2][1] = "commit"
       THEN log[1][2] \o InsertedInOrder(Tail(log))
       ELSE InsertedInOrder(Tail(log))

\* ceil(n / d)
CeilDiv(n, d) == (n + d - 1) \div d

\* C27: when update_dirty_cache_items has ended, other than by the process
\* being killed, every row the subset query returned has been inserted
\* exactly once, in the order the query returned them, and the number of
\* commits is ceil(n / batch_size) for the n rows returned.
C27_EveryFetchedRowInsertedOnce ==
  (mode = "inc" /\ pc \in Terminal /\ err # "crash" /\ fetched # <<>>) =>
    /\ InsertedInOrder(stmts) =
         [k \in 1..Len(fetched) |-> CacheRow(last_updated, fetched[k])]
    /\ CountOf(stmts, "commit") = CeilDiv(Len(fetched), batch_size)

\* C28: update_dirty_cache_items called with an empty id collection returns
\* normally, with no delete, no insert and no commit issued, and the
\* incremental update ends at its 'no ids found to update' return.
C28_EmptyIdsReachesNoIdsReturn ==
  (DirtyQueryAnswered /\ ids = {} /\ pc \in Terminal /\ err # "crash") =>
    /\ pc = "returned_no_ids"
    /\ err = "none"
    /\ CountOf(stmts, "delete") = 0
    /\ CountOf(stmts, "insert") = 0
    /\ CountOf(stmts, "commit") = 0

\* C29: a full build or incremental update that has failed before its
\* checkpoint write leaves the checkpoint record as it was before the
\* command, and the incremental update that runs next reads that old
\* checkpoint.
C29_FailedRunKeepsCheckpoint ==
  /\ [](pc = "failed" => bws = preBws)
  /\ [][(pc = "failed" /\ pc' # "failed" /\ mode' = "inc" /\ tableExists) =>
          timestamp' = StoredTimestamp(preBws, CACHE_TIMESTAMP_KEY)]_vars

\* an incremental update has failed in a flush after an earlier batch was
\* committed, with a checkpoint stored before it started
C29_Witness ==
  /\ pc = "failed"
  /\ mode = "inc"
  /\ err \in {"InvalidTextRepresentation", "UniqueViolation"}
  /\ CountOf(stmts, "commit") >= 1
  /\ StoredTimestamp(preBws, CACHE_TIMESTAMP_KEY) # NoTime

\* C30: when runs of the same entity overlap, no step lowers the stored
\* checkpoint: a run that read an earlier timestamp does not overwrite a
\* later checkpoint written by the other run.
C30_OverlapCheckpointNeverDecreases ==
  [][checkpoints'[EntryKey(OverlapEntity)] >= checkpoints[EntryKey(OverlapEntity)]]_vars

====
